---- MODULE Spec2Model ----
(***************************************************************************)
(* Model of ib_insync/ibcontroller.py: the Watchdog that supervises an     *)
(* IBC-launched TWS/gateway process and the IB connection to it.           *)
(*                                                                         *)
(* Scheduling.  All code runs on one asyncio event loop that has been      *)
(* patched to be re-entrant (ibcontroller.py:332).  The synchronous        *)
(* controller.start(), controller.terminate(), IB.sleep() and ib.connect() *)
(* therefore run the loop from inside a handler: the handler is suspended  *)
(* at that call and other callbacks (timers, socket notifications, the     *)
(* watcher task, user calls) run to their end, or to their own suspension, *)
(* before it continues.  Suspended handlers form a stack: only the top one *)
(* can resume.  Code between two suspension points is one atomic step.     *)
(*                                                                         *)
(* Specifications.  Spec: the constructed Watchdog with its IBC; FairSpec  *)
(* is Spec under a fair event loop; CtorSpec is the constructor over all   *)
(* argument sets; CtlSpec is the controller (IBC or IBController) with its *)
(* coroutines called directly by concurrent tasks.                         *)
(***************************************************************************)
EXTENDS Integers, Sequences, FiniteSets

VARIABLES
    isRunning,     \* Watchdog._isRunning
    isRestarting,  \* Watchdog._isRestarting
    timers,        \* pending loop.call_later(retryDelay, self.start) handles
    proc,          \* controller._proc: "none", "up" (live process), "dead"
                   \* (told to exit), "exited" (the OS reports it gone)
    monitor,       \* controller._monitor is set
    leaked,        \* spawned processes no handle refers to any more
    connected,     \* ib.isConnected()
    signal,        \* ib.wrapper.timeoutEv and its timer: "off", "armed", "signaled"
    watcher,       \* position of the _watchAsync task: "wait", "probe", "busy"
                   \* ("none" before the Watchdog is constructed)
    stack,         \* suspended handlers, innermost last
    log,           \* events emitted and notifications received, in order
    userStarts,    \* number of start() calls made by the user
    userStops,     \* number of stop() calls made by the user
    extStop,       \* the user's last call was stop(): "none", "plain", or
                   \* "restarting" when a restart timer was pending at the call
    softs,         \* softTimeoutEvents emitted since the last setTimeout
    args,          \* the arguments Watchdog(...) is constructed with
    built,         \* the outcome of Watchdog.__init__: "no" (not yet called),
                   \* "ok", or the exception it raised
    subs,          \* the Watchdog methods subscribed to the events of ib
    kind,          \* the class of the controller: "IBC" or "IBController"
    calls          \* the calls of the controller's coroutines made directly
                   \* by tasks of the loop, each with its position

vars == <<isRunning, isRestarting, timers, proc, monitor, leaked, connected,
          signal, watcher, stack, log, userStarts, userStops, extStop, softs,
          args, built, subs, kind, calls>>

\* Bounds of the model.
MaxLog == 8
MaxDepth == 2
MaxTimers == 2
MaxLeaked == 1
MaxUserStarts == 2
MaxUserStops == 1
MaxRetryDelay == 2
MaxCalls == 3

\* The upper limit of appTimeout that __init__ asserts.
AppTimeoutLimit == 60

\* The error code that _onError treats as fatal.
FatalCode == 1100
\* An informational error code (market data farm connection is OK).
InfoCode == 2104
ErrorCodes == {FatalCode, InfoCode}

Lifecycle == {"startingEvent", "startedEvent", "stoppingEvent", "stoppedEvent",
              "softTimeoutEvent", "hardTimeoutEvent"}

\* The state as one record, so that a handler is a function from state to state
\* and the statements of a handler compose in the order of the source.
Cur == [isRunning |-> isRunning, isRestarting |-> isRestarting, timers |-> timers,
        proc |-> proc, monitor |-> monitor, leaked |-> leaked,
        connected |-> connected, signal |-> signal, watcher |-> watcher,
        stack |-> stack, log |-> log, userStarts |-> userStarts,
        userStops |-> userStops, extStop |-> extStop, softs |-> softs,
        args |-> args, built |-> built, subs |-> subs,
        kind |-> kind, calls |-> calls]

\* The step to state s, if s is within the bounds of the model.
Commit(s) ==
    /\ Len(s.log) <= MaxLog
    /\ Len(s.stack) <= MaxDepth
    /\ s.timers <= MaxTimers
    /\ s.leaked <= MaxLeaked
    /\ s.userStarts <= MaxUserStarts
    /\ s.userStops <= MaxUserStops
    /\ Len(s.calls) <= MaxCalls
    /\ isRunning' = s.isRunning
    /\ isRestarting' = s.isRestarting
    /\ timers' = s.timers
    /\ proc' = s.proc
    /\ monitor' = s.monitor
    /\ leaked' = s.leaked
    /\ connected' = s.connected
    /\ signal' = s.signal
    /\ watcher' = s.watcher
    /\ stack' = s.stack
    /\ log' = s.log
    /\ userStarts' = s.userStarts
    /\ userStops' = s.userStops
    /\ extStop' = s.extStop
    /\ softs' = s.softs
    /\ args' = s.args
    /\ built' = s.built
    /\ subs' = s.subs
    /\ kind' = s.kind
    /\ calls' = s.calls

Emit(s, e) == [s EXCEPT !.log = Append(@, e)]

Push(s, h, pc) == [s EXCEPT !.stack = Append(@, [h |-> h, pc |-> pc])]

Pop(s) == [s EXCEPT !.stack = SubSeq(@, 1, Len(@) - 1)]

Top == stack[Len(stack)]

TopIs(hs, pcs) == Len(stack) > 0 /\ Top.h \in hs /\ Top.pc \in pcs

Handlers == {"start", "stop", "_onError", "disconnectedEvent", "_watchAsync"}

\* The nested run of the loop returns as soon as the awaited future is done.
\* A handler suspended in terminateAsync awaits the exit of the process; once
\* the handle is no longer the terminated process, that exit has been observed
\* and the handler continues before the loop runs any other callback.
Returning == TopIs(Handlers, {"termwait"}) /\ proc # "dead"

\* The step to state s by a callback the loop begins to run.
Dispatch(s) == ~Returning /\ Commit(s)

(***************************************************************************)
(* The controller (IBC).                                                   *)
(***************************************************************************)

\* startAsync up to its await: "sleep" when a handle exists (return at once),
\* "spawn" when the subprocess is being created.
startAsync(s) == IF s.proc # "none" THEN "sleep" ELSE "spawn"

\* startAsync after create_subprocess_exec returned: the handle and the
\* monitor are assigned; a live process the old handle referred to is lost.
startAsync_spawned(s) ==
    [s EXCEPT !.leaked = IF s.proc = "up" THEN @ + 1 ELSE @,
              !.proc = "up",
              !.monitor = TRUE]

\* terminateAsync up to its await: nothing without a handle, else the monitor
\* is cancelled and the process is sent terminate.  With the process gone,
\* terminate() raises ProcessLookupError, which is suppressed: the wait is
\* skipped and the handle cleared at once.
terminateAsync(s) ==
    IF s.proc = "none" THEN s
    ELSE IF s.proc = "exited" THEN [s EXCEPT !.monitor = FALSE, !.proc = "none"]
    ELSE [s EXCEPT !.monitor = FALSE, !.proc = "dead"]

\* Where terminateAsync is suspended: "termwait" awaiting the exit of the
\* process, "termnoop" when it returned at once.
terminatePc(s) ==
    IF s.proc \in {"none", "exited"} THEN "termnoop" ELSE "termwait"

\* terminateAsync after the process exited: the handle is cleared, whatever it
\* refers to by now.
terminateAsync_waited(s, pc) ==
    IF pc = "termnoop" THEN s
    ELSE [s EXCEPT !.leaked = IF s.proc = "up" THEN @ + 1 ELSE @,
                   !.proc = "none"]

(***************************************************************************)
(* The controller (IBController).  Its startAsync has the steps of IBC's.  *)
(***************************************************************************)

\* terminateAsync up to its await.  _monitor.cancel() is called whether or
\* not a monitor is set: without one it raises AttributeError and nothing has
\* changed.
IBController_terminateAsync(s) ==
    IF s.proc = "none" \/ ~s.monitor THEN s
    ELSE IF s.proc = "exited" THEN [s EXCEPT !.monitor = FALSE, !.proc = "none"]
    ELSE [s EXCEPT !.monitor = FALSE, !.proc = "dead"]

IBController_terminatePc(s) ==
    IF s.proc = "none" THEN "termnoop"
    ELSE IF ~s.monitor THEN "AttributeError"
    ELSE IF s.proc = "exited" THEN "termnoop"
    ELSE "termwait"

\* stopAsync up to its first await: returns at once without a handle, else
\* opens the connection to the control port.
IBController_stopAsync(s) == IF s.proc = "none" THEN "done" ELSE "connect"

\* stopAsync after STOP was written and drained: self._proc.wait() is called
\* on the handle as it is by now; the process has been told to exit.
IBController_stopAsync_drained(s) ==
    IF s.proc = "up" THEN [s EXCEPT !.proc = "dead"] ELSE s

IBController_stopAsync_drainedPc(s) ==
    IF s.proc = "none" THEN "AttributeError" ELSE "wait"

\* stopAsync after the process exited: the handle is cleared, whatever it
\* refers to by now, then _monitor.cancel() is called on the monitor as it is
\* by now.
IBController_stopAsync_waited(s) ==
    [s EXCEPT !.leaked = IF s.proc = "up" THEN @ + 1 ELSE @,
              !.proc = "none",
              !.monitor = FALSE]

IBController_stopAsync_waitedPc(s) ==
    IF s.monitor THEN "done" ELSE "AttributeError"

(***************************************************************************)
(* The connection (IB) and its idle-timeout signal.                        *)
(***************************************************************************)

\* ib.connect succeeded.
_connect(s) == [s EXCEPT !.connected = TRUE]

\* ib.disconnect: idempotent; the idle timer of a closed connection is no
\* longer armed, a signal that has fired stays signaled.
_disconnect(s) ==
    [s EXCEPT !.connected = FALSE,
              !.signal = IF @ = "armed" THEN "off" ELSE @]

\* ib.setTimeout: clears the signal and starts a new idle window.
setTimeout(s) == [s EXCEPT !.signal = "armed", !.softs = 0]

(***************************************************************************)
(* The Watchdog.                                                           *)
(***************************************************************************)

_scheduleRestart(s) ==
    IF s.isRestarting THEN s
    ELSE [s EXCEPT !.isRestarting = TRUE, !.timers = @ + 1]

\* start() up to the first suspension, inside controller.start().
start(s) ==
    LET s1 == [s EXCEPT !.isRunning = TRUE, !.isRestarting = FALSE]
        s2 == Emit(s1, "startingEvent")
    IN  Push(s2, "start", startAsync(s2))

\* start() after a successful connect.
start_connected(s) == Pop(Emit(setTimeout(_connect(s)), "startedEvent"))

\* start() when the connect raised: controller.terminate(), suspended in it.
start_except(s) ==
    LET s1 == terminateAsync(s)
    IN  Push(Pop(s1), "start", terminatePc(s))

\* The end of the except branch as it would be without _scheduleRestart().
start_exceptTailNoRestart(s, pc) == Pop(terminateAsync_waited(s, pc))

\* start() after controller.terminate() in the except branch.
start_exceptTail(s, pc) == Pop(_scheduleRestart(terminateAsync_waited(s, pc)))

\* _stop() up to its suspension inside controller.terminate(), called by h.
_stop(s, h) ==
    LET s1 == Emit(s, "stoppingEvent")
        s2 == _disconnect(s1)
        s3 == terminateAsync(s2)
    IN  Push(s3, h, terminatePc(s2))

\* _stop() after controller.terminate(); the watcher then loops to its wait.
_stopTail(s, h, pc) ==
    LET s1 == terminateAsync_waited(s, pc)
        s2 == Emit(s1, "stoppedEvent")
        s3 == IF s2.isRunning THEN _scheduleRestart(s2) ELSE s2
        s4 == Pop(s3)
    IN  IF h = "_watchAsync" THEN [s4 EXCEPT !.watcher = "wait"] ELSE s4

stop(s) == _stop([s EXCEPT !.isRunning = FALSE], "stop")

\* _onError as it would be if error 1100 were routed through the hard-timeout
\* path of the watcher instead of calling _stop directly.
_onError_viaHardTimeout(s, errorCode) ==
    IF errorCode = FatalCode
    THEN _stop(Emit(Emit(s, "error1100"), "hardTimeoutEvent"), "_onError")
    ELSE s

_onError(s, errorCode) ==
    IF errorCode = FatalCode
    THEN _stop(Emit(s, "error1100"), "_onError")
    ELSE s

\* The watcher after timeoutEv.wait() returned: soft timeout, probe sent.
_watchAsync_soft(s) ==
    [Emit(s, "softTimeoutEvent") EXCEPT !.watcher = "probe", !.softs = @ + 1]

\* The watcher on a good probe as it would be without the call of setTimeout.
_watchAsync_aliveNoRearm(s) == [s EXCEPT !.watcher = "wait"]

\* The watcher when the probe returned bars in time.
_watchAsync_alive(s) == [setTimeout(s) EXCEPT !.watcher = "wait"]

\* The watcher when the probe timed out, failed or returned nothing.
_watchAsync_dead(s) ==
    _stop([Emit(s, "hardTimeoutEvent") EXCEPT !.watcher = "busy"], "_watchAsync")

\* The arguments a Watchdog can be constructed with: a controller or None, an
\* IB instance (None, not connected, connected), appTimeout and retryDelay.
AppTimeouts == (0 - 1)..(AppTimeoutLimit + 1)
RetryDelays == (0 - 1)..MaxRetryDelay
Args == [controller : BOOLEAN, ib : {"none", "idle", "connected"},
         appTimeout : AppTimeouts, retryDelay : RetryDelays]

\* The arguments of the usage example, with the defaults of the class.
UsageArgs == [controller |-> TRUE, ib |-> "idle", appTimeout |-> 20,
              retryDelay |-> 2]

\* The checks of __init__ that raise ValueError, in the order of the source.
raisesValueError(a) == ~a.controller \/ a.ib = "none" \/ a.ib = "connected"

\* The two assert statements of __init__.
raisesAssertionError(a) ==
    \/ ~(0 < a.appTimeout /\ a.appTimeout < AppTimeoutLimit)
    \/ ~(a.retryDelay > 0)

\* What __init__ does once the arguments have passed its checks.
__init__tail(s) ==
    [s EXCEPT !.watcher = "wait",
              !.isRunning = FALSE,
              !.isRestarting = FALSE,
              !.subs = {"_onError", "_stop"},
              !.built = "ok"]

\* __init__ as it would be with the assert statements compiled away.
__init__noAsserts(s) ==
    IF raisesValueError(s.args) THEN [s EXCEPT !.built = "ValueError"]
    ELSE __init__tail(s)

__init__(s) ==
    IF raisesValueError(s.args) THEN [s EXCEPT !.built = "ValueError"]
    ELSE IF raisesAssertionError(s.args)
         THEN [s EXCEPT !.built = "AssertionError"]
         ELSE __init__tail(s)

(***************************************************************************)
(* Actions.                                                                *)
(***************************************************************************)

\* The state before Watchdog(...) is called with arguments a.
Unbuilt(a) ==
    /\ isRunning = FALSE
    /\ isRestarting = FALSE
    /\ timers = 0
    /\ proc = "none"
    /\ monitor = FALSE
    /\ leaked = 0
    /\ connected = (a.ib = "connected")
    /\ signal = "off"
    /\ watcher = "none"
    /\ stack = <<>>
    /\ log = <<>>
    /\ userStarts = 0
    /\ userStops = 0
    /\ extStop = "none"
    /\ softs = 0
    /\ args = a
    /\ built = "no"
    /\ subs = {}
    /\ kind = "IBC"
    /\ calls = <<>>

CtorInit == \E a \in Args : Unbuilt(a)

\* Watchdog(...) is called.
Construct ==
    /\ built = "no"
    /\ Commit(__init__(Cur))

CtorNext == Construct

CtorSpec == CtorInit /\ [][CtorNext]_vars

\* The state after Watchdog(controller, ib) returned.
WatchdogInit ==
    /\ isRunning = FALSE
    /\ isRestarting = FALSE
    /\ timers = 0
    /\ proc = "none"
    /\ monitor = FALSE
    /\ leaked = 0
    /\ connected = FALSE
    /\ signal = "off"
    /\ watcher = "wait"
    /\ stack = <<>>
    /\ log = <<>>
    /\ userStarts = 0
    /\ userStops = 0
    /\ extStop = "none"
    /\ softs = 0
    /\ args = UsageArgs
    /\ built = "ok"
    /\ subs = {"_onError", "_stop"}
    /\ calls = <<>>

\* The Watchdog of the usage example: its controller is an IBC.
Init == WatchdogInit /\ kind = "IBC"

\* The user calls start(), from the main program as in the usage example of
\* the class: not from inside a callback of the loop.
UserStart ==
    /\ userStarts < MaxUserStarts
    /\ stack = <<>>
    /\ Dispatch(start([Cur EXCEPT !.userStarts = @ + 1, !.extStop = "none"]))

\* The user calls stop().
UserStop ==
    /\ userStops < MaxUserStops
    /\ Dispatch(stop([Cur EXCEPT !.userStops = @ + 1,
                                  !.extStop = IF timers > 0 THEN "restarting"
                                                            ELSE "plain"]))

\* A restart timer fires: the loop calls start().
TimerFire ==
    /\ timers > 0
    /\ Dispatch(start([Cur EXCEPT !.timers = @ - 1]))

\* ib.errorEvent delivers an error received over the connection.
OnError ==
    /\ "_onError" \in subs
    /\ connected
    /\ \E code \in ErrorCodes : Dispatch(_onError(Cur, code))

\* The peer closes the connection: ib.disconnectedEvent calls _stop.
Disconnected ==
    /\ "_stop" \in subs
    /\ connected
    /\ Dispatch(_stop(_disconnect(Cur), "disconnectedEvent"))

\* The idle timer elapses without traffic: timeoutEv is set.
IdleTimeout ==
    /\ signal = "armed"
    /\ Dispatch([Cur EXCEPT !.signal = "signaled"])

SoftTimeout ==
    /\ watcher = "wait"
    /\ signal = "signaled"
    /\ Dispatch(_watchAsync_soft(Cur))

ProbeAlive ==
    /\ watcher = "probe"
    /\ connected
    /\ Dispatch(_watchAsync_alive(Cur))

ProbeDead ==
    /\ watcher = "probe"
    /\ Dispatch(_watchAsync_dead(Cur))

\* create_subprocess_exec returns inside controller.start(); IB.sleep begins.
SpawnDone ==
    /\ TopIs({"start"}, {"spawn"})
    /\ Commit(Push(Pop(startAsync_spawned(Cur)), "start", "sleep"))

\* create_subprocess_exec raises: start() ends with the exception.
SpawnFail ==
    /\ TopIs({"start"}, {"spawn"})
    /\ Commit(Pop(Cur))

\* IB.sleep(appStartupTime) returns; ib.connect begins.
SleepDone ==
    /\ TopIs({"start"}, {"sleep"})
    /\ Commit(Push(Pop(Cur), "start", "connect"))

\* ib.connect returns: a process is there to accept the connection.
ConnectOk ==
    /\ TopIs({"start"}, {"connect"})
    /\ (proc = "up" \/ leaked > 0)
    /\ Commit(start_connected(Cur))

\* ib.connect raises (refused, timed out).
ConnectFail ==
    /\ TopIs({"start"}, {"connect"})
    /\ Commit(start_except(Cur))

\* controller.terminate() returns to the handler that called it.
TerminateDone ==
    /\ TopIs(Handlers, {"termwait", "termnoop"})
    /\ IF Top.h = "start"
       THEN Commit(start_exceptTail(Cur, Top.pc))
       ELSE Commit(_stopTail(Cur, Top.h, Top.pc))

Next ==
    \/ UserStart
    \/ UserStop
    \/ TimerFire
    \/ OnError
    \/ Disconnected
    \/ IdleTimeout
    \/ SoftTimeout
    \/ ProbeAlive
    \/ ProbeDead
    \/ SpawnDone
    \/ SpawnFail
    \/ SleepDone
    \/ ConnectOk
    \/ ConnectFail
    \/ TerminateDone

Spec == Init /\ [][Next]_vars

(***************************************************************************)
(* The controller on its own: tasks of the loop call its coroutines        *)
(* startAsync, terminateAsync and stopAsync; a call runs to its next await *)
(* and any suspended call may be the next to continue.                     *)
(***************************************************************************)

Kinds == {"IBC", "IBController"}

\* A coroutine is called and has run to position pc.
Call(s, op, pc) == [s EXCEPT !.calls = Append(@, [op |-> op, pc |-> pc])]

\* Call i has run on to position pc.
Goto(s, i, pc) == [s EXCEPT !.calls[i].pc = pc]

\* The calls of op that are suspended at pc.
At(op, pc) == {i \in 1..Len(calls) : calls[i] = [op |-> op, pc |-> pc]}

CtlInit == WatchdogInit /\ kind \in Kinds

CallStart ==
    /\ Len(calls) < MaxCalls
    /\ Commit(Call(Cur, "startAsync",
                   IF startAsync(Cur) = "spawn" THEN "spawn" ELSE "done"))

\* create_subprocess_exec returns to a startAsync.
Spawned ==
    \E i \in At("startAsync", "spawn") :
        Commit(Goto(startAsync_spawned(Cur), i, "done"))

CallTerminate ==
    /\ Len(calls) < MaxCalls
    /\ IF kind = "IBC"
       THEN Commit(Call(terminateAsync(Cur), "terminateAsync",
                        terminatePc(Cur)))
       ELSE Commit(Call(IBController_terminateAsync(Cur), "terminateAsync",
                        IBController_terminatePc(Cur)))

\* self._proc.wait() returns to a terminateAsync.
Waited ==
    \E i \in At("terminateAsync", "termwait") :
        Commit(Goto(terminateAsync_waited(Cur, "termwait"), i, "done"))

CallStop ==
    /\ kind = "IBController"
    /\ Len(calls) < MaxCalls
    /\ Commit(Call(Cur, "stopAsync", IBController_stopAsync(Cur)))

\* open_connection returns to a stopAsync: the process listens on its port.
StopConnected ==
    \E i \in At("stopAsync", "connect") :
        /\ proc \in {"up", "dead"}
        /\ Commit(Goto(Cur, i, "drain"))

\* open_connection raises: the process is no longer running.
StopRefused ==
    \E i \in At("stopAsync", "connect") :
        /\ proc # "up"
        /\ Commit(Goto(Cur, i, "ConnectionRefusedError"))

\* writer.drain() returns to a stopAsync.
StopDrained ==
    \E i \in At("stopAsync", "drain") :
        Commit(Goto(IBController_stopAsync_drained(Cur), i,
                    IBController_stopAsync_drainedPc(Cur)))

\* self._proc.wait() returns to a stopAsync.
StopWaited ==
    \E i \in At("stopAsync", "wait") :
        Commit(Goto(IBController_stopAsync_waited(Cur), i,
                    IBController_stopAsync_waitedPc(Cur)))

\* The process exits, on its own or after it was told to.
ProcExit ==
    /\ proc \in {"up", "dead"}
    /\ Commit([Cur EXCEPT !.proc = "exited"])

CtlNext ==
    \/ CallStart
    \/ Spawned
    \/ CallTerminate
    \/ Waited
    \/ CallStop
    \/ StopConnected
    \/ StopRefused
    \/ StopDrained
    \/ StopWaited
    \/ ProcExit

CtlSpec == CtlInit /\ [][CtlNext]_vars

(***************************************************************************)
(* Properties.                                                             *)
(***************************************************************************)

\* The lifecycle events emitted so far, in order.
Ev == SelectSeq(log, LAMBDA e : e \in Lifecycle)

Count(e, seq) == Cardinality({i \in 1..Len(seq) : seq[i] = e})

\* The position of the last e in seq, 0 when there is none.
LastIdx(e, seq) ==
    LET at == {i \in 1..Len(seq) : seq[i] = e}
    IN  IF at = {} THEN 0 ELSE CHOOSE i \in at : \A j \in at : j <= i

\* The lifecycle events since the last startedEvent.
SinceStarted == SubSeq(Ev, LastIdx("startedEvent", Ev) + 1, Len(Ev))

\* The handlers that run the stop sequence.
StopHandlers == {"stop", "_onError", "disconnectedEvent", "_watchAsync"}

\* The user started the Watchdog once and made no other call.
OnlyStartedOnce == userStarts = 1 /\ userStops = 0

\* C1: in every reachable state at most one restart timer (a call_later of
\* start that has not fired) is pending.  Stated for the runs in which the
\* user calls start() only and never stop().
AtMostOneRestartTimer == userStops = 0 => timers <= 1

\* C2: once stop() has been called while a restart timer was pending, and the
\* user has not called start() since, no restart timer is pending and the
\* Watchdog is not running (the timer was cancelled, start() is not re-entered).
StopCancelsPendingRestart ==
    extStop = "restarting" => (timers = 0 /\ ~isRunning)

\* C3: since the Watchdog last started, one failed probe has led to exactly
\* one run of the stop sequence and at most one restart, whatever disconnect
\* or error-1100 notifications were delivered around it.
ProbeFailureStopsOnce ==
    (OnlyStartedOnce /\ Count("hardTimeoutEvent", SinceStarted) = 1)
        => (/\ Count("stoppingEvent", SinceStarted) = 1
            /\ Count("startingEvent", SinceStarted) <= 1)

\* C4: the watcher emits at most one softTimeoutEvent between two calls of
\* setTimeout, also after a probe that was found dead.
SoftTimeoutOncePerIdlePeriod == softs <= 1

\* C5: the step in which the watcher takes a non-empty probe result re-arms
\* the liveness signal and changes nothing else: no event is emitted, no stop
\* sequence begins, no restart is scheduled, the Watchdog stays as it was.
AliveProbeOnlyRearms ==
    [][(watcher = "probe" /\ watcher' = "wait")
        => (/\ signal' = "armed"
            /\ softs' = 0
            /\ log' = log
            /\ stack' = stack
            /\ timers' = timers
            /\ isRunning' = isRunning
            /\ isRestarting' = isRestarting
            /\ connected' = connected
            /\ proc' = proc)]_vars

\* C5 witness: a soft timeout was the last thing that happened while running
\* and connected, and the watcher is back at its wait with the signal armed.
AliveProbeWitness ==
    /\ Len(log) > 0
    /\ log[Len(log)] = "softTimeoutEvent"
    /\ watcher = "wait"
    /\ signal = "armed"
    /\ isRunning /\ connected /\ proc = "up"
    /\ stack = <<>>
    /\ timers = 0

\* C6: every error-1100 notification is followed at once by stoppingEvent: no
\* softTimeoutEvent or hardTimeoutEvent lies between the two.
FatalErrorStopsDirectly ==
    \A i \in 1..Len(log) :
        log[i] = "error1100" => (i < Len(log) /\ log[i + 1] = "stoppingEvent")

\* C6 witness: error 1100 arrived right after the Watchdog had started and
\* the stop sequence it began is suspended in controller.terminate().
FatalErrorWitness ==
    /\ Len(log) >= 3
    /\ log[Len(log) - 2] = "startedEvent"
    /\ log[Len(log) - 1] = "error1100"
    /\ log[Len(log)] = "stoppingEvent"
    /\ TopIs({"_onError"}, {"termwait"})

\* C7: a hardTimeoutEvent directly follows its softTimeoutEvent and is
\* followed by stoppingEvent, stoppedEvent and one startingEvent, with no
\* other lifecycle event in between (the user only started the Watchdog).
Follows == <<"stoppingEvent", "stoppedEvent", "startingEvent">>

DeadProbeEventOrder ==
    OnlyStartedOnce =>
        \A i \in 1..Len(Ev) :
            Ev[i] = "hardTimeoutEvent" =>
                /\ i > 1
                /\ Ev[i - 1] = "softTimeoutEvent"
                /\ \A k \in 1..3 : i + k <= Len(Ev) => Ev[i + k] = Follows[k]
                /\ i + 4 <= Len(Ev) => Ev[i + 4] # "startingEvent"

\* C8: while a stop sequence is in controller.terminate(), the connection has
\* been disconnected and the watcher is no longer waiting on the idle-timeout
\* signal.  Stated for the runs in which the user only started the Watchdog.
StopSequenceOrder ==
    (OnlyStartedOnce /\ TopIs(StopHandlers, {"termwait", "termnoop"}))
        => (~connected /\ watcher # "wait")

\* C9: a restart (the restart timer firing and calling start()) never begins
\* while a stop sequence is still in progress, and a stop sequence arms the
\* restart timer only with the process handle cleared and stoppedEvent emitted.
\* Stated for the runs in which the user only started the Watchdog.
RestartAfterStopCompleted ==
    [][OnlyStartedOnce =>
        /\ (timers' < timers)
            => \A i \in 1..Len(stack) : stack[i].h \notin StopHandlers
        /\ (timers' > timers /\ TopIs(StopHandlers, {"termwait", "termnoop"}))
            => (proc' = "none" /\ log'[Len(log')] = "stoppedEvent")]_vars

\* C10: a stop sequence that begins while a probe is pending cancels the
\* probe: no hardTimeoutEvent follows a stoppingEvent unless a new
\* softTimeoutEvent came in between.
StopCancelsPendingProbe ==
    \A i \in 1..Len(Ev) :
        Ev[i] = "hardTimeoutEvent" =>
            \A k \in 1..(i - 1) :
                Ev[k] = "stoppingEvent" =>
                    \E m \in (k + 1)..(i - 1) : Ev[m] = "softTimeoutEvent"

\* C11: no Watchdog handler begins while another handler has started and not
\* yet finished: a handler begins and is suspended (the stack grows) only
\* from a state in which no handler is suspended.
HandlersRunToCompletion ==
    [][Len(stack') > Len(stack) => stack = <<>>]_vars

\* C12: once an external stop() has returned (no restart timer was pending
\* when it was called, and the user has made no call since), the Watchdog is
\* Stopped: _isRunning is false, the controller has no process handle, and no
\* restart is scheduled.
StopLeavesStopped ==
    (extStop = "plain" /\ \A i \in 1..Len(stack) : stack[i].h # "stop")
        => (~isRunning /\ proc = "none" /\ timers = 0 /\ ~isRestarting)

\* The arguments to be refused: a missing controller, a missing or already
\* connected IB instance, appTimeout outside 0 < appTimeout < 60, or
\* retryDelay <= 0.
BadArgs ==
    \/ ~args.controller
    \/ args.ib \in {"none", "connected"}
    \/ args.appTimeout <= 0
    \/ args.appTimeout >= AppTimeoutLimit
    \/ args.retryDelay <= 0

\* C13: a Watchdog constructed with bad arguments raises at construction, and
\* then no watcher task exists and no method is subscribed to an event of ib.
ConstructionFailsFast ==
    (built # "no" /\ BadArgs)
        => (/\ built \in {"ValueError", "AssertionError"}
            /\ watcher = "none"
            /\ subs = {})

\* C13 witness: the constructor refused appTimeout = 60, the boundary of the
\* range, with everything else in order.
ConstructionRefusedWitness ==
    /\ built = "AssertionError"
    /\ args.controller
    /\ args.ib = "idle"
    /\ args.appTimeout = AppTimeoutLimit
    /\ args.retryDelay > 0
    /\ watcher = "none"
    /\ subs = {}

\* C14: a terminateAsync called with a handle whose process has exited
\* returns at once without an error and leaves neither handle nor monitor;
\* called without a handle it returns at once and changes nothing.
TerminateOfExitedProcess ==
    [][(Len(calls') > Len(calls) /\ calls'[Len(calls')].op = "terminateAsync")
        => /\ proc = "exited"
                => (/\ calls'[Len(calls')].pc = "termnoop"
                    /\ proc' = "none"
                    /\ ~monitor')
           /\ proc = "none"
                => (/\ calls'[Len(calls')].pc = "termnoop"
                    /\ UNCHANGED <<proc, monitor, leaked>>)]_vars

\* C15: at any time at most one process has been spawned and not terminated:
\* no live process exists that the handle of the controller does not refer to.
AtMostOneLiveProcess == leaked = 0

\* At most one stopAsync and at most one terminateAsync have been called.
OneStopOneTerminate ==
    /\ Cardinality({i \in 1..Len(calls) : calls[i].op = "stopAsync"}) <= 1
    /\ Cardinality({i \in 1..Len(calls) : calls[i].op = "terminateAsync"}) <= 1

\* C20: for IBController, a stopAsync and a terminateAsync, however they
\* interleave, end without raising: neither reaches an AttributeError.
StopAndTerminateInterleave ==
    (kind = "IBController" /\ OneStopOneTerminate)
        => \A i \in 1..Len(calls) : calls[i].pc # "AttributeError"

\* The state of the Watchdog in the terms of the state table.  A handler on
\* the stack decides: a stop sequence in progress is Stopping, else a start()
\* past controller.start() is Starting (inside controller.start() the Watchdog
\* is between Stopped or Restarting and Starting).  With no handler on the
\* stack the Watchdog is Stopped when disabled, Running when enabled and
\* connected, and Restarting when enabled and waiting to start again.
WatchdogState ==
    IF \E i \in 1..Len(stack) : stack[i].h \in StopHandlers THEN "Stopping"
    ELSE IF \E i \in 1..Len(stack) : stack[i].pc = "spawn" THEN "entering"
    ELSE IF stack # <<>> THEN "Starting"
    ELSE IF ~isRunning THEN "Stopped"
    ELSE IF connected THEN "Running"
    ELSE "Restarting"

\* C17: the controller holds a process handle exactly when the Watchdog is
\* Starting, Running or Stopping.  Stated for the runs in which the user only
\* started the Watchdog, and not for the moment between the return of a
\* terminate wait and the statements that follow it.
HandleIffActive ==
    (OnlyStartedOnce /\ WatchdogState # "entering" /\ ~Returning)
        => (proc # "none"
                <=> WatchdogState \in {"Starting", "Running", "Stopping"})

\* C18: a restart is pending (_isRestarting is set or a restart timer is
\* outstanding) only while the Watchdog is Restarting, or in the last step of
\* a stop sequence whose terminate wait has returned.  Stated for the runs in
\* which the user only started the Watchdog.
RestartPendingOnlyInRestarting ==
    (OnlyStartedOnce /\ ~Returning /\ (isRestarting \/ timers > 0))
        => WatchdogState = "Restarting"

\* The step in which the connect of start() raises.
ConnectFailStep ==
    /\ TopIs({"start"}, {"connect"})
    /\ Len(stack') = Len(stack)
    /\ stack'[Len(stack')].pc \in {"termwait", "termnoop"}

\* The step in which start() leaves its except branch.
ExceptTailStep ==
    /\ TopIs({"start"}, {"termwait", "termnoop"})
    /\ Len(stack') < Len(stack)

Fairness ==
    /\ WF_vars(SpawnDone \/ SpawnFail)
    /\ WF_vars(SleepDone)
    /\ WF_vars(ConnectOk \/ ConnectFail)
    /\ WF_vars(TerminateDone)
    /\ WF_vars(TimerFire)
    /\ SF_vars(SpawnDone)
    /\ SF_vars(ConnectOk)

FairSpec == Spec /\ Fairness

\* The n-th entry of the log is the stoppingEvent of a stop sequence that a
\* liveness failure began: the user has not called stop().
FailureAt(n) == userStops = 0 /\ Len(log) >= n /\ log[n] = "stoppingEvent"

ReenteredAfter(n) == \E k \in (n + 1)..Len(log) : log[k] = "startingEvent"

StartedAfter(n) == \E k \in (n + 1)..Len(log) : log[k] = "startedEvent"

\* The Watchdog was disabled by the user, or the log of the model is full.
GivenUp == userStops > 0 \/ Len(log) >= MaxLog - 1

\* C16: under fairness, after every stop sequence begun by a liveness failure
\* with the Watchdog enabled, start() is entered again and, connects that are
\* tried again and again succeeding in the end, startedEvent is emitted again.
RecoversAfterFailure ==
    \A n \in 1..MaxLog :
        /\ FailureAt(n) ~> (ReenteredAfter(n) \/ GivenUp)
        /\ FailureAt(n) ~> (StartedAfter(n) \/ GivenUp)

====
